---------------------------- MODULE Spec2Model ----------------------------
(***************************************************************************)
(* A model of aprs-is-wx.py: the APRS weather packet encoder               *)
(* (get_wx_data, make_aprs_wx, convert_coordinates_to_aprs_format), the    *)
(* retrying publisher (send_aprs_with_retry) and the top-level flow (main).*)
(*                                                                         *)
(* Strings are sequences of one-character strings.  A Python float is a    *)
(* fixed-point number counted in thousandths; a number read from the       *)
(* observation file is counted in tenths.                                  *)
(***************************************************************************)
EXTENDS Integers, Sequences, FiniteSets, TLC

VARIABLES
    pc,          \* position of main(): see MainPc
    exitStatus,  \* value returned by main(): NoExit while it runs, then 0 or 1
    config,      \* settings dictionary returned by load_config
    meteo,       \* content of the observation file named by METEO_FILE
    now,         \* the clock reading used by time.strftime("%d%H%M")
    weather_data,\* dictionary returned by get_wx_data
    wx,          \* main's weather packet, built by make_aprs_wx
    wxResult,    \* what the weather publish returned: "none", "True", "False"
    call,        \* which call of send_aprs_with_retry runs: "none", "wx", "status"
    arg_wx,      \* parameter wx of the running call: the payload to publish
    spc,         \* position inside send_aprs_with_retry: see SendPc
    attempt,     \* loop variable of "for attempt in range(max_retries)"
    max_retries, \* parameter of the running call
    retry_delay, \* parameter of the running call
    s,           \* local variable s: index into socks, 0 while unbound
    socks,       \* every socket object created so far, in creation order
    result,      \* return value of the last call: "none", "True", "False"
    events,      \* history: what the process did, in order
    refcounting  \* whether the interpreter reclaims an object as soon as no
                 \* name refers to it (reference counting) or leaves it

vars == << pc, exitStatus, config, meteo, now, weather_data, wx, wxResult, call,
           arg_wx, spc, attempt, max_retries, retry_delay, s, socks, result, events,
           refcounting >>

mainVars == << pc, exitStatus, config, meteo, now, weather_data, wx, wxResult,
               refcounting >>
sendVars == << call, arg_wx, spc, attempt, max_retries, retry_delay, s, socks,
               result, events >>

-----------------------------------------------------------------------------
(* Numbers and strings *)

Abs(n) == IF n < 0 THEN -n ELSE n

Digit(d) == << "0", "1", "2", "3", "4", "5", "6", "7", "8", "9" >>[d + 1]

RECURSIVE NatToStr(_)
\* the decimal numeral of a natural number, as format "d" writes it
NatToStr(n) == IF n < 10 THEN << Digit(n) >>
               ELSE NatToStr(n \div 10) \o << Digit(n % 10) >>

Repeat(c, n) == [i \in 1..n |-> c]

\* Python values: None, an int, a float (v counted in thousandths)
None == [kind |-> "None", v |-> 0]
PyInt(n) == [kind |-> "int", v |-> n]
PyFloat(m) == [kind |-> "float", v |-> m]

\* format(number, "d")
FormatD(n) == IF n < 0 THEN << "-" >> \o NatToStr(-n) ELSE NatToStr(n)

\* round a non-negative count of thousandths to the nearest integer, ties to
\* the even one, as format ".0f" does
RoundHalfEven(m) ==
    LET q == m \div 1000
        r == m % 1000
    IN  IF r > 500 THEN q + 1
        ELSE IF r < 500 THEN q
        ELSE IF q % 2 = 0 THEN q ELSE q + 1

\* format(number, ".0f"): the sign is that of the value, also when the
\* magnitude rounds to zero ("-0")
Format0f(m) == IF m < 0 THEN << "-" >> \o NatToStr(RoundHalfEven(-m))
               ELSE NatToStr(RoundHalfEven(m))

\* str.zfill(length): pads with zeros on the left, after a leading sign;
\* never shortens
zfill(str, length) ==
    IF Len(str) >= length THEN str
    ELSE IF Len(str) > 0 /\ Head(str) \in {"+", "-"}
         THEN << Head(str) >> \o Repeat("0", length - Len(str)) \o Tail(str)
         ELSE Repeat("0", length - Len(str)) \o str

-----------------------------------------------------------------------------
(* get_wx_data *)

\* a value of the observation file: missing key, a JSON number counted in
\* tenths, or a JSON string that is no numeral
Absent == [kind |-> "absent", v |-> 0, unit |-> ""]
Num(tenths, u) == [kind |-> "num", v |-> tenths, unit |-> u]
Text(u) == [kind |-> "text", v |-> 0, unit |-> u]

AllNone == [temperature |-> None, pressure |-> None, humidity |-> None,
            wind_dir |-> None, wind_speed |-> None, wind_gust |-> None,
            rain_since_midnight |-> None]

\* str.lower() / str.upper() of the unit tags the inputs use
Lower(u) == CASE u = "inHg" -> "inhg"
              [] u = "hPa" -> "hpa"
              [] u = "C" -> "c"
              [] u = "F" -> "f"
              [] OTHER -> u

\* the unit tag of a field, or the default when the tag is missing
UnitOr(x, default) == IF x.unit = "" THEN default ELSE x.unit

\* p * pow(1 + 0.000084229 * (elevation / pow(p, 0.19028)), 5.2553) in
\* thousandths of hPa, tabulated from the expression for the pressures and
\* the elevation the inputs use; elsewhere the factor at 1013 hPa and 200 m
ElevationCorrected(p, elevation) ==
    CASE p = 1013000 /\ elevation = 200 -> 1037264
      [] p = 1012530 /\ elevation = 200 -> 1036785
      [] OTHER -> (p \div 1000) * 1024

\* whether a conversion of get_wx_data raises (float() or int() of a string
\* that is no numeral; the division by pow(0, 0.19028))
ConversionRaises(raw, elevation) ==
    \/ \E f \in DOMAIN raw : raw[f].kind = "text"
    \/ raw.pressure.kind = "num" /\ elevation > 0
         /\ raw.pressure.v = 0

\* lines 66-134: the conversions, each applied only to a present field
Converted(raw, elevation) ==
    [temperature |->
        IF raw.temperature.kind = "absent" THEN None
        ELSE IF Lower(UnitOr(raw.temperature, "C")) = "c"
             THEN PyFloat(raw.temperature.v * 180 + 32000)
             ELSE PyFloat(raw.temperature.v * 100),
     pressure |->
        IF raw.pressure.kind = "absent" THEN None
        ELSE LET p0 == IF Lower(UnitOr(raw.pressure, "hPa")) = "inhg"
                       THEN (raw.pressure.v * 338639) \div 100
                       ELSE raw.pressure.v * 100
                 p1 == IF elevation > 0 THEN ElevationCorrected(p0, elevation)
                       ELSE p0
             IN  PyInt(p1 \div 100),
     humidity |->
        IF raw.humidity.kind = "absent" THEN None
        ELSE PyFloat(raw.humidity.v * 100),
     wind_dir |->
        IF raw.wind_direction.kind = "absent" THEN None
        ELSE PyInt(raw.wind_direction.v \div 10),
     wind_speed |->
        IF raw.wind_speed.kind = "absent" THEN None
        ELSE LET u == Lower(UnitOr(raw.wind_speed, "mph"))
             IN  PyFloat(IF u = "m/s" THEN (raw.wind_speed.v * 223694) \div 1000
                         ELSE IF u = "km/h"
                              THEN (raw.wind_speed.v * 621371) \div 10000
                              ELSE raw.wind_speed.v * 100),
     wind_gust |->
        IF raw.wind_gust.kind = "absent" THEN None
        ELSE LET u == Lower(UnitOr(raw.wind_gust,
                                   UnitOr(raw.wind_speed, "mph")))
             IN  PyFloat(IF u = "m/s" THEN (raw.wind_gust.v * 223694) \div 1000
                         ELSE IF u = "km/h"
                              THEN (raw.wind_gust.v * 621371) \div 10000
                              ELSE raw.wind_gust.v * 100),
     rain_since_midnight |->
        IF raw.rain_since_midnight.kind = "absent" THEN None
        ELSE IF Lower(UnitOr(raw.rain_since_midnight, "in")) = "mm"
             THEN PyFloat((raw.rain_since_midnight.v * 393701) \div 100000)
             ELSE PyFloat(raw.rain_since_midnight.v * 100)]

\* what get_wx_data does with the file: exc is the exception it raises
\* ("none" when it returns), data the dictionary it returns
get_wx_data(file, elevation) ==
    IF file.status = "missing"
    THEN [exc |-> "FileNotFoundError", data |-> AllNone]
    ELSE IF file.status = "invalid_json"
    THEN [exc |-> "ValueError", data |-> AllNone]
    ELSE IF ConversionRaises(file.raw, elevation)
    THEN [exc |-> "none", data |-> AllNone]
    ELSE [exc |-> "none", data |-> Converted(file.raw, elevation)]

-----------------------------------------------------------------------------
(* Bounds and inputs *)

\* largest max_retries a direct call of send_aprs_with_retry is given
MaxRetries == 3

\* defaults of send_aprs_with_retry, the socket timeout and the drain sleep
DefaultMaxRetries == 3
DefaultRetryDelay == 5
SocketTimeout == 30
DrainSeconds == 3

\* exitStatus while main() has not returned
NoExit == 0 - 1

NoConfig == [ELEVATION |-> 0, STATIONLATITUDE |-> 0, STATIONLONGITUDE |-> 0,
             STATION_TYPE |-> << >>]

\* the settings files load_config may find: none, one with a value that is
\* no number, and two well-formed ones (coordinates in hundredths of a degree)
ConfigFiles ==
    { [status |-> "missing", settings |-> NoConfig],
      [status |-> "bad_value", settings |-> NoConfig],
      [status |-> "ok",
       settings |-> [ELEVATION |-> 200, STATIONLATITUDE |-> 5225,
                     STATIONLONGITUDE |-> 2100, STATION_TYPE |-> << "W", "X" >>]],
      [status |-> "ok",
       settings |-> [ELEVATION |-> 0, STATIONLATITUDE |-> -3740,
                     STATIONLONGITUDE |-> -12214, STATION_TYPE |-> << "x" >>]] }

Clock == { [day |-> 1, hour |-> 9, minute |-> 5] }

RawRecord(t, p, h, wd, ws, wg, r) ==
    [temperature |-> t, pressure |-> p, humidity |-> h, wind_direction |-> wd,
     wind_speed |-> ws, wind_gust |-> wg, rain_since_midnight |-> r]

NoRaw == RawRecord(Absent, Absent, Absent, Absent, Absent, Absent, Absent)

\* the observation files of a whole run: none, one that is no JSON, one whose
\* temperature is no number, and a full one
MeteoFiles ==
    { [status |-> "missing", raw |-> NoRaw],
      [status |-> "invalid_json", raw |-> NoRaw],
      [status |-> "ok",
       raw |-> RawRecord(Text(""), Absent, Num(650, ""), Absent, Absent,
                         Absent, Absent)],
      [status |-> "ok",
       raw |-> RawRecord(Num(-400, ""), Num(299, "inHg"), Num(1000, ""),
                         Num(2700, ""), Num(50, "m/s"), Num(1000, "km/h"),
                         Num(25, "mm"))] }

\* the observation files the encoder is checked on: every combination of
\* these values of the seven fields
TemperatureValues == { Absent, Text(""), Num(0, "F"), Num(200, "C"),
                       Num(-178, "C"), Num(-400, "") }
PressureValues == { Absent, Num(0, ""), Num(10130, "hPa"), Num(299, "inHg") }
HumidityValues == { Absent, Num(0, ""), Num(650, ""), Num(995, ""),
                    Num(1000, "") }
WindDirectionValues == { Absent, Num(0, ""), Num(2700, "") }
WindSpeedValues == { Absent, Num(0, ""), Num(50, "m/s") }
WindGustValues == { Absent, Num(0, ""), Num(1000, "km/h") }
RainValues == { Absent, Num(0, "in"), Num(254, "mm") }

EncMeteoFiles ==
    { [status |-> "missing", raw |-> NoRaw],
      [status |-> "invalid_json", raw |-> NoRaw] }
    \cup
    { [status |-> "ok", raw |-> RawRecord(t, p, h, wd, ws, wg, r)] :
        t \in TemperatureValues, p \in PressureValues, h \in HumidityValues,
        wd \in WindDirectionValues, ws \in WindSpeedValues,
        wg \in WindGustValues, r \in RainValues }

\* payloads a direct call of send_aprs_with_retry is given
Payloads == { << "w", "x" >>, << ">", "U", "p" >> }

\* what uptime() may return, as text
UptimeStrings == { << "1", ":", "0", "2", ":", "0", "3" >> }

-----------------------------------------------------------------------------
(* make_aprs_wx *)

\* str_or_dots with "if not number" for "if number is None": a zero is taken
\* for a missing value
str_or_dots_falsy(number, length) ==
    IF number.kind = "None" \/ number.v = 0 THEN Repeat(".", length)
    ELSE IF number.kind = "int" THEN zfill(FormatD(number.v), length)
    ELSE zfill(Format0f(number.v), length)

str_or_dots(number, length) ==
    IF number.kind = "None" THEN Repeat(".", length)
    ELSE IF number.kind = "int" THEN zfill(FormatD(number.v), length)
    ELSE zfill(Format0f(number.v), length)

\* "%d%H%M" of the clock reading
timeStringZulu(t) ==
    zfill(NatToStr(t.day), 2) \o zfill(NatToStr(t.hour), 2)
        \o zfill(NatToStr(t.minute), 2)

\* one coordinate, counted in hundredths of a degree: degrees zero-padded to
\* degWidth, then minutes as "MM.mm", then the hemisphere letter
CoordStr(c, degWidth, pos, neg) ==
    LET a == Abs(c)
        degrees == a \div 100
        minutes == (a % 100) * 60      \* hundredths of a minute
    IN  zfill(NatToStr(degrees), degWidth)
        \o zfill(NatToStr(minutes \div 100), 2) \o << "." >>
        \o zfill(NatToStr(minutes % 100), 2)
        \o << IF c >= 0 THEN pos ELSE neg >>

convert_coordinates_to_aprs_format(lat, lon) ==
    << CoordStr(lat, 2, "N", "S"), CoordStr(lon, 3, "E", "W") >>

make_aprs_wx(cfg, wd, t) ==
    LET ll == convert_coordinates_to_aprs_format(cfg.STATIONLATITUDE,
                                                 cfg.STATIONLONGITUDE)
    IN  << "@" >> \o timeStringZulu(t) \o << "z" >> \o ll[1] \o << "/" >> \o ll[2]
        \o << "_" >> \o str_or_dots(wd.wind_dir, 3)
        \o << "/" >> \o str_or_dots(wd.wind_speed, 3)
        \o << "g" >> \o str_or_dots(wd.wind_gust, 3)
        \o << "t" >> \o str_or_dots(wd.temperature, 3)
        \o << "P" >> \o str_or_dots(wd.rain_since_midnight, 3)
        \o << "h" >> \o str_or_dots(wd.humidity, 2)
        \o << "b" >> \o str_or_dots(wd.pressure, 5)
        \o cfg.STATION_TYPE

-----------------------------------------------------------------------------
(* send_aprs_with_retry *)

Event(op, c, n) == [op |-> op, call |-> c, n |-> n]

Log(op, n) == Append(events, Event(op, call, n))

\* a socket object just after socket(AF_INET, SOCK_STREAM) and settimeout(30)
NewSocket == [open |-> TRUE, connected |-> FALSE, shut |-> FALSE,
              timeout |-> SocketTimeout, lines |-> << >>,
              call |-> call, attempt |-> attempt]

\* an exception of the classes of the first except clause
\* (timeout, error, ConnectionRefusedError, ConnectionResetError)
RaiseNetwork ==
    /\ spc' = "except_net"
    /\ events' = Log("raise_net", attempt + 1)

\* an exception of any other class derived from Exception
RaiseOther ==
    /\ spc' = "except_other"
    /\ events' = Log("raise_other", attempt + 1)

\* Socket object i loses its last reference (the name s is bound anew, or the
\* frame of the call is left).  An interpreter that counts references
\* reclaims it at once, which closes its descriptor without a shutdown; one
\* that does not leaves it open for the time being.
Unreferenced(sk, i) ==
    IF i # 0 /\ sk[i].open /\ refcounting THEN [sk EXCEPT ![i].open = FALSE]
    ELSE sk

\* the function returns r: its frame, and with it the name s, is gone
Return(r, ev, sk) ==
    /\ spc' = "returned"
    /\ result' = r
    /\ s' = 0
    /\ socks' = Unreferenced(sk, s)
    /\ events' = Append(ev, Event("return_" \o r, call, attempt + 1))

\* line 311: the loop head; a range that is used up ends the function without
\* a return statement
ForLoop ==
    /\ spc = "for"
    /\ IF attempt < max_retries
       THEN /\ spc' = "socket"
            /\ events' = Log("attempt", attempt + 1)
            /\ UNCHANGED << result, s, socks >>
       ELSE Return("None", events, socks)
    /\ UNCHANGED << mainVars, call, arg_wx, attempt, max_retries, retry_delay >>

\* Socket keeping the socket of the attempt before, when there is one
Socket_Reuse ==
    /\ spc = "socket"
    /\ \/ /\ IF s # 0 /\ socks[s].open
             THEN UNCHANGED << s, socks >>
             ELSE /\ socks' = Append(socks, NewSocket)
                  /\ s' = Len(socks) + 1
          /\ spc' = "connect"
          /\ events' = Log("socket", IF s # 0 /\ socks[s].open THEN s
                                     ELSE Len(socks) + 1)
       \/ /\ RaiseNetwork
          /\ UNCHANGED << s, socks >>
    /\ UNCHANGED << mainVars, call, arg_wx, attempt, max_retries, retry_delay,
                    result >>

\* lines 316-317
Socket ==
    /\ spc = "socket"
    /\ \/ /\ socks' = Append(Unreferenced(socks, s), NewSocket)
          /\ s' = Len(socks) + 1
          /\ spc' = "connect"
          /\ events' = Log("socket", Len(socks) + 1)
       \/ /\ RaiseNetwork
          /\ UNCHANGED << s, socks >>
    /\ UNCHANGED << mainVars, call, arg_wx, attempt, max_retries, retry_delay,
                    result >>

\* line 318
Connect ==
    /\ spc = "connect"
    /\ \/ /\ socks' = [socks EXCEPT ![s].connected = TRUE]
          /\ spc' = "login"
          /\ events' = Log("connect", s)
       \/ /\ RaiseNetwork
          /\ UNCHANGED socks
       \/ /\ RaiseOther
          /\ UNCHANGED socks
    /\ UNCHANGED << mainVars, call, arg_wx, attempt, max_retries, retry_delay,
                    s, result >>

\* lines 321-322
SendLogin ==
    /\ spc = "login"
    /\ \/ /\ socks' = [socks EXCEPT ![s].lines = Append(@, "login")]
          /\ spc' = "packet"
          /\ events' = Log("send_login", s)
       \/ /\ RaiseNetwork
          /\ UNCHANGED socks
       \/ /\ RaiseOther
          /\ UNCHANGED socks
    /\ UNCHANGED << mainVars, call, arg_wx, attempt, max_retries, retry_delay,
                    s, result >>

\* lines 325-326
SendPacket ==
    /\ spc = "packet"
    /\ \/ /\ socks' = [socks EXCEPT ![s].lines = Append(@, "packet")]
          /\ spc' = "drain"
          /\ events' = Log("send_packet", s)
       \/ /\ RaiseNetwork
          /\ UNCHANGED socks
       \/ /\ RaiseOther
          /\ UNCHANGED socks
    /\ UNCHANGED << mainVars, call, arg_wx, attempt, max_retries, retry_delay,
                    s, result >>

\* line 329
Drain ==
    /\ spc = "drain"
    /\ spc' = "shutdown"
    /\ events' = Log("sleep_drain", DrainSeconds)
    /\ UNCHANGED << mainVars, call, arg_wx, attempt, max_retries, retry_delay,
                    s, socks, result >>

\* line 332
Shutdown ==
    /\ spc = "shutdown"
    /\ \/ /\ socks' = [socks EXCEPT ![s].shut = TRUE]
          /\ spc' = "close"
          /\ events' = Log("shutdown", s)
       \/ /\ RaiseNetwork
          /\ UNCHANGED socks
    /\ UNCHANGED << mainVars, call, arg_wx, attempt, max_retries, retry_delay,
                    s, result >>

\* lines 333-336
Close ==
    /\ spc = "close"
    /\ Return("True", Log("close", s), [socks EXCEPT ![s].open = FALSE])
    /\ UNCHANGED << mainVars, call, arg_wx, attempt, max_retries, retry_delay >>

\* ExceptNetwork with "attempt < max_retries" for "attempt < max_retries - 1"
ExceptNetwork_OffByOne ==
    /\ spc = "except_net"
    /\ IF attempt < max_retries
       THEN /\ spc' = "retry_sleep"
            /\ UNCHANGED << s, result, events, socks >>
       ELSE Return("False", events, socks)
    /\ UNCHANGED << mainVars, call, arg_wx, attempt, max_retries, retry_delay >>

\* lines 338-346: the handler of a network error, up to the sleep
ExceptNetwork ==
    /\ spc = "except_net"
    /\ IF attempt < max_retries - 1
       THEN /\ spc' = "retry_sleep"
            /\ UNCHANGED << s, result, events, socks >>
       ELSE Return("False", events, socks)
    /\ UNCHANGED << mainVars, call, arg_wx, attempt, max_retries, retry_delay >>

\* line 343, and the loop taking the next value of the range
RetrySleep ==
    /\ spc = "retry_sleep"
    /\ events' = Log("sleep_retry", retry_delay)
    /\ attempt' = attempt + 1
    /\ spc' = "for"
    /\ UNCHANGED << mainVars, call, arg_wx, max_retries, retry_delay, s, socks,
                    result >>

\* ExceptOther retrying as the handler of a network error does
ExceptOther_Retries ==
    /\ spc = "except_other"
    /\ IF attempt < max_retries - 1
       THEN /\ spc' = "retry_sleep"
            /\ UNCHANGED << s, result, events, socks >>
       ELSE Return("False", events, socks)
    /\ UNCHANGED << mainVars, call, arg_wx, attempt, max_retries, retry_delay >>

\* lines 348-350
ExceptOther ==
    /\ spc = "except_other"
    /\ Return("False", events, socks)
    /\ UNCHANGED << mainVars, call, arg_wx, attempt, max_retries, retry_delay >>

SendNext ==
    \/ ForLoop \/ Socket \/ Connect \/ SendLogin \/ SendPacket \/ Drain
    \/ Shutdown \/ Close \/ ExceptNetwork \/ RetrySleep \/ ExceptOther

-----------------------------------------------------------------------------
(* main *)

\* line 383: any exception of load_config reaches main's except clause
LoadConfig ==
    /\ pc = "load_config"
    /\ \E f \in ConfigFiles :
         IF f.status = "ok"
         THEN /\ config' = f.settings
              /\ pc' = "get_wx_data"
              /\ UNCHANGED exitStatus
         ELSE /\ pc' = "done"
              /\ exitStatus' = 1
              /\ UNCHANGED config
    /\ UNCHANGED << meteo, now, weather_data, wx, wxResult, refcounting,
                    sendVars >>

\* line 386
GetWxData ==
    /\ pc = "get_wx_data"
    /\ LET r == get_wx_data(meteo, config.ELEVATION)
       IN  IF r.exc = "none"
           THEN /\ weather_data' = r.data
                /\ pc' = "make_aprs_wx"
                /\ UNCHANGED exitStatus
           ELSE /\ pc' = "done"
                /\ exitStatus' = 1
                /\ UNCHANGED weather_data
    /\ UNCHANGED << config, meteo, now, wx, wxResult, refcounting, sendVars >>

\* lines 389-393
MakeAprsWx ==
    /\ pc = "make_aprs_wx"
    /\ wx' = make_aprs_wx(config, weather_data, now)
    /\ pc' = "send_wx"
    /\ UNCHANGED << exitStatus, config, meteo, now, weather_data, wxResult,
                    refcounting, sendVars >>

\* send_aprs_with_retry(config, payload) is entered with its defaults
CallSend(c, payload) ==
    /\ call' = c
    /\ arg_wx' = payload
    /\ max_retries' = DefaultMaxRetries
    /\ retry_delay' = DefaultRetryDelay
    /\ attempt' = 0
    /\ s' = 0
    /\ result' = "none"
    /\ spc' = "for"
    /\ events' = Append(events, Event("call", c, 0))
    /\ UNCHANGED socks

\* line 396, the call
SendWx ==
    /\ pc = "send_wx"
    /\ CallSend("wx", wx)
    /\ pc' = "wait_wx"
    /\ UNCHANGED << exitStatus, config, meteo, now, weather_data, wx, wxResult,
                    refcounting >>

\* line 396, the test of what the call returned; line 409 when it is false
SendWxReturned ==
    /\ pc = "wait_wx"
    /\ spc = "returned"
    /\ wxResult' = result
    /\ spc' = "idle"
    /\ call' = "none"
    /\ IF result = "True"
       THEN /\ pc' = "uptime"
            /\ UNCHANGED exitStatus
       ELSE /\ pc' = "done"
            /\ exitStatus' = 0
    /\ UNCHANGED << config, meteo, now, weather_data, wx, arg_wx, attempt,
                    max_retries, retry_delay, s, socks, result, events,
                    refcounting >>

\* lines 399-400 and 402-403, 409: uptime() returns a text or raises
Uptime ==
    /\ pc = "uptime"
    /\ \/ \E u \in UptimeStrings :
            /\ CallSend("status", << ">", "U", "p", "t", "i", "m", "e", ":", " " >> \o u)
            /\ pc' = "wait_status"
            /\ UNCHANGED exitStatus
       \/ /\ pc' = "done"
          /\ exitStatus' = 0
          /\ events' = Append(events, Event("uptime_raises", "none", 0))
          /\ UNCHANGED << call, arg_wx, spc, attempt, max_retries, retry_delay,
                          s, socks, result >>
    /\ UNCHANGED << config, meteo, now, weather_data, wx, wxResult, refcounting >>

\* SendStatusReturned letting a failed status publish fail the run
SendStatusReturned_Strict ==
    /\ pc = "wait_status"
    /\ spc = "returned"
    /\ spc' = "idle"
    /\ call' = "none"
    /\ pc' = "done"
    /\ exitStatus' = IF result = "True" THEN 0 ELSE 1
    /\ UNCHANGED << config, meteo, now, weather_data, wx, wxResult, arg_wx,
                    attempt, max_retries, retry_delay, s, socks, result, events,
                    refcounting >>

\* line 401 returning, then line 409
SendStatusReturned ==
    /\ pc = "wait_status"
    /\ spc = "returned"
    /\ spc' = "idle"
    /\ call' = "none"
    /\ pc' = "done"
    /\ exitStatus' = 0
    /\ UNCHANGED << config, meteo, now, weather_data, wx, wxResult, arg_wx,
                    attempt, max_retries, retry_delay, s, socks, result, events,
                    refcounting >>

-----------------------------------------------------------------------------
(* Specifications *)

IdleSend ==
    /\ call = "none" /\ arg_wx = << >> /\ spc = "idle" /\ attempt = 0
    /\ max_retries = 0 /\ retry_delay = 0 /\ s = 0 /\ socks = << >>
    /\ result = "none" /\ events = << >>

\* a whole run of main()
Init ==
    /\ pc = "load_config"
    /\ exitStatus = NoExit
    /\ config = NoConfig
    /\ meteo \in MeteoFiles
    /\ now \in Clock
    /\ weather_data = AllNone
    /\ wx = << >>
    /\ wxResult = "none"
    /\ refcounting \in BOOLEAN
    /\ IdleSend

Next ==
    \/ LoadConfig \/ GetWxData \/ MakeAprsWx \/ SendWx \/ SendWxReturned
    \/ Uptime \/ SendStatusReturned
    \/ SendNext

Spec == Init /\ [][Next]_vars

\* the encoder alone: main() up to the packet, on every combination of fields
EncInit ==
    /\ pc = "load_config"
    /\ exitStatus = NoExit
    /\ config = NoConfig
    /\ meteo \in EncMeteoFiles
    /\ now \in Clock
    /\ weather_data = AllNone
    /\ wx = << >>
    /\ wxResult = "none"
    /\ refcounting \in BOOLEAN
    /\ IdleSend

EncNext == LoadConfig \/ GetWxData \/ MakeAprsWx

EncSpec == EncInit /\ [][EncNext]_vars

\* one direct call send_aprs_with_retry(config, wx, max_retries, retry_delay)
SendInit ==
    /\ pc = "direct_call"
    /\ exitStatus = NoExit
    /\ config \in { f.settings : f \in { g \in ConfigFiles : g.status = "ok" } }
    /\ meteo \in { m \in MeteoFiles : m.status = "missing" }
    /\ now \in Clock
    /\ weather_data = AllNone
    /\ wx = << >>
    /\ wxResult = "none"
    /\ refcounting \in BOOLEAN
    /\ call = "direct"
    /\ arg_wx \in Payloads
    /\ spc = "for"
    /\ attempt = 0
    /\ max_retries \in 0..MaxRetries
    /\ retry_delay \in { 0, DefaultRetryDelay }
    /\ s = 0
    /\ socks = << >>
    /\ result = "none"
    /\ events = << >>

SendSpec == SendInit /\ [][SendNext]_vars

-----------------------------------------------------------------------------
(* Properties of send_aprs_with_retry, checked under SendSpec *)

Indices(op) == { i \in 1..Len(events) : events[i].op = op }

Ops(evs) == [k \in 1..Len(evs) |-> evs[k].op]

IsPrefix(a, b) == Len(a) <= Len(b) /\ \A k \in 1..Len(a) : a[k] = b[k]

SocketOps == << "socket", "connect", "send_login", "send_packet", "shutdown",
                "close" >>

\* the events on socket i, in order
SockEvents(i) ==
    SelectSeq(events, LAMBDA e : e.n = i /\ \E k \in 1..Len(SocketOps) : SocketOps[k] = e.op)

\* the attempt that opened socket i is over
AttemptEnded(i) ==
    \/ spc \in { "except_net", "except_other", "retry_sleep", "returned", "idle" }
    \/ socks[i].attempt < attempt
    \/ socks[i].call # call

\* C1: with max_retries >= 1 and only network errors raised, a call that has
\* returned after k failed attempts returned True after exactly k+1 attempts
\* when k < max_retries and False after exactly max_retries attempts
\* when k = max_retries, and exactly one sleep of retry_delay seconds lies
\* between every two consecutive attempts (and none elsewhere).
C1_RetryContract ==
    (spc = "returned" /\ max_retries >= 1 /\ Indices("raise_other") = {}) =>
        LET k == Cardinality(Indices("raise_net"))
            att == Indices("attempt")
            slp == Indices("sleep_retry")
        IN  /\ k <= max_retries
            /\ k < max_retries =>
                 result = "True" /\ Cardinality(att) = k + 1
            /\ k = max_retries =>
                 result = "False" /\ Cardinality(att) = max_retries
            /\ Cardinality(slp) = Cardinality(att) - 1
            /\ \A m \in slp : events[m].n = retry_delay
            /\ \A i \in att : \A j \in att :
                 (i < j /\ ~ \E x \in att : i < x /\ x < j) =>
                    Cardinality({ m \in slp : i < m /\ m < j }) = 1

\* two network errors, then success on the third attempt
C1_Witness ==
    /\ spc = "returned" /\ result = "True" /\ max_retries = 3
    /\ Cardinality(Indices("raise_net")) = 2
    /\ Indices("raise_other") = {}
    /\ Cardinality(Indices("sleep_retry")) = 2

\* C2: once an attempt is over, however it ended, the socket it opened is no
\* longer open.
C2_SocketReleased ==
    \A i \in 1..Len(socks) : AttemptEnded(i) => ~ socks[i].open

\* C4: nothing follows a non-network exception but the return of False: no
\* sleep and no further attempt, and one raised on the first attempt leaves
\* exactly one attempt made whatever max_retries is.
C4_OtherFailsFast ==
    \A i \in Indices("raise_other") :
        /\ i >= Len(events) - 1
        /\ i = Len(events) => spc = "except_other"
        /\ i = Len(events) - 1 =>
               /\ events[Len(events)].op = "return_False"
               /\ spc = "returned" /\ result = "False"
        /\ events[i].n = 1 => Cardinality(Indices("attempt")) = 1
        /\ \A m \in Indices("sleep_retry") \cup Indices("attempt") : m < i

\* a non-network exception on the first of three attempts, and the call back
C4_Witness ==
    /\ spc = "returned" /\ max_retries = 3 /\ result = "False"
    /\ \E i \in Indices("raise_other") : events[i].n = 1

\* C6: a socket carries at most the login line and then the payload line; the
\* operations on it are a prefix of socket, connect, login, payload, shutdown,
\* close, all within one attempt; no two attempts share a socket; a call that
\* returned True ended with exactly that sequence, the drain sleep between
\* the payload and the shutdown.
C6_SessionOrder ==
    /\ \A i \in 1..Len(socks) :
         /\ IsPrefix(socks[i].lines, << "login", "packet" >>)
         /\ IsPrefix(Ops(SockEvents(i)), SocketOps)
         /\ \A a \in Indices("attempt") :
              \A x \in 1..Len(events) : \A y \in 1..Len(events) :
                 ~ ( /\ x < a /\ a < y
                     /\ events[x].op = "socket" /\ events[x].n = i
                     /\ events[y].n = i
                     /\ \E k \in 1..Len(SocketOps) : SocketOps[k] = events[y].op )
         /\ \A j \in 1..Len(socks) :
              (socks[i].call = socks[j].call /\ socks[i].attempt = socks[j].attempt)
                 => i = j
    /\ (spc = "returned" /\ result = "True") =>
         LET n == Len(events)
             sk == Len(socks)
         IN  /\ n >= 9
             /\ Ops(SubSeq(events, n - 8, n)) =
                  << "attempt", "socket", "connect", "send_login", "send_packet",
                     "sleep_drain", "shutdown", "close", "return_True" >>
             /\ events[n - 3].n = DrainSeconds
             /\ \A x \in { n - 7, n - 6, n - 5, n - 4, n - 2, n - 1 } :
                  events[x].n = sk
             /\ socks[sk].lines = << "login", "packet" >>
             /\ socks[sk].shut /\ ~ socks[sk].open

\* a call that returned True on its second attempt, on a second socket
C6_Witness ==
    /\ spc = "returned" /\ result = "True"
    /\ Len(socks) = 2
    /\ socks[1].lines = << "login" >>
    /\ socks[2].lines = << "login", "packet" >>

\* C10: over all attempts of one call the payload line is written at most
\* once.
C10_PayloadOnce == Cardinality(Indices("send_packet")) <= 1

-----------------------------------------------------------------------------
(* Properties of main, checked under Spec *)

\* the observation file is missing or malformed: no JSON, or a field that is
\* no number
DataSourceError ==
    \/ meteo.status # "ok"
    \/ \E f \in DOMAIN meteo.raw : meteo.raw[f].kind = "text"

\* C3: main returns 0 exactly when the packet was encoded and the weather
\* publish returned True.
C3_ExitStatus ==
    pc = "done" => (exitStatus = 0 <=> (wx # << >> /\ wxResult = "True"))

\* C5: the status line is built and published only after the weather publish
\* has returned True, and when it has, main returns 0 whatever becomes of the
\* status step.
C5_StatusAfterWx ==
    /\ \A i \in 1..Len(events) :
         events[i].call = "status" \/ events[i].op = "uptime_raises" =>
            /\ wxResult = "True"
            /\ \E j \in 1..(i - 1) :
                 events[j].call = "wx" /\ events[j].op = "return_True"
    /\ pc \in { "uptime", "wait_status" } => wxResult = "True"
    /\ (pc = "done" /\ wxResult = "True") => exitStatus = 0

\* the weather publish succeeded, the status publish returned False
C5_Witness ==
    /\ pc = "done" /\ wxResult = "True"
    /\ \E i \in 1..Len(events) :
         events[i].call = "status" /\ events[i].op = "return_False"

\* load_config raised: main ended without a settings dictionary
ConfigError == pc = "done" /\ config = NoConfig

\* C7: a run whose settings cannot be loaded, or whose observation file is
\* missing or malformed, returns non-zero and never opens a connection.
C7_DataErrorAborts ==
    (ConfigError \/ DataSourceError) =>
        /\ socks = << >>
        /\ Indices("attempt") = {}
        /\ pc = "done" => exitStatus # 0

-----------------------------------------------------------------------------
(* Properties of make_aprs_wx, checked under EncSpec *)

\* the seven fields: name, width, and the position of the first character
\* in a line whose earlier fields have their widths
Fields ==
    { [name |-> "wind_dir", width |-> 3, pos |-> 28],
      [name |-> "wind_speed", width |-> 3, pos |-> 32],
      [name |-> "wind_gust", width |-> 3, pos |-> 36],
      [name |-> "temperature", width |-> 3, pos |-> 40],
      [name |-> "rain_since_midnight", width |-> 3, pos |-> 44],
      [name |-> "humidity", width |-> 2, pos |-> 48],
      [name |-> "pressure", width |-> 5, pos |-> 51] }

\* a present value is in range: its rounded value is one the field can hold
\* (floats in thousandths, a tie at .5 going to the even neighbour)
InRange(wd) ==
    /\ wd.wind_dir.v \in 0..360
    /\ wd.wind_speed.v \in 0..999499
    /\ wd.wind_gust.v \in 0..999499
    /\ wd.temperature.v \in -99499..999499
    /\ wd.rain_since_midnight.v \in 0..999499
    /\ wd.humidity.v \in 0..99499
    /\ wd.pressure.v \in 0..99999

\* C8: in the packet made from in-range values every absent field is a run
\* of dots of the field's width at the field's position, every present zero
\* is a run of zero digits there, and the length of the line does not depend
\* on which fields are present.
C8_DotsAndLength ==
    (pc = "send_wx" /\ InRange(weather_data)) =>
        /\ \A f \in Fields :
             LET val == weather_data[f.name]
                 got == SubSeq(wx, f.pos, f.pos + f.width - 1)
             IN  /\ val.kind = "None" => got = Repeat(".", f.width)
                 /\ (val.kind # "None" /\ val.v = 0) => got = Repeat("0", f.width)
        /\ Len(wx) = 55 + Len(config.STATION_TYPE)

\* a packet with absent fields, zeros and other values side by side
C8_Witness ==
    /\ pc = "send_wx" /\ InRange(weather_data)
    /\ weather_data.wind_dir = None
    /\ weather_data.rain_since_midnight = None
    /\ weather_data.humidity = PyFloat(0)
    /\ weather_data.wind_speed = PyFloat(0)
    /\ weather_data.temperature.kind = "float" /\ weather_data.temperature.v < 0
    /\ weather_data.pressure.kind = "int" /\ weather_data.pressure.v > 0

\* C9: for a whole humidity from 0 to 100 the humidity field is the two characters
\* after "h", followed by "b", and a humidity of 100 is written "00".
C9_HumidityTwoWide ==
    ( /\ pc = "send_wx"
      /\ weather_data.humidity.kind = "float"
      /\ weather_data.humidity.v \in { 1000 * h : h \in 0..100 }
      /\ InRange([weather_data EXCEPT !.humidity = None]) ) =>
        /\ wx[47] = "h" /\ wx[50] = "b"
        /\ weather_data.humidity.v = 100000 => SubSeq(wx, 48, 49) = << "0", "0" >>

=============================================================================
